---- MODULE Spec2Model ----
\* A model of revscrap: the Dash request handler (src/app.py) and the scraping
\* and normalisation functions it calls (src/scraper.py).
\*
\* Python values are tagged records so that values of different Python types
\* can be compared: None, int, str (a tuple of one-character strings),
\* datetime, list.  Text is modelled character by character.
EXTENDS Integers, Sequences, FiniteSets, TLC

\* ------------------------------------------------------------------ bounds
\* Number of non-empty pages the Play Store service holds before it is exhausted.
MaxPages == 3
\* Largest number of reviews in a batch handed to a formatter.
MaxBatch == 2
\* Number of formatter calls made on one batch.
MaxCalls == 3
\* Longest URL handed to the App Store identifier extraction.
MaxUrlLen == 5

\* ------------------------------------------------------- program constants
\* count=150 in the page request.
PageCount == 150
\* how_many default of retrieve_playstore_reviews.
DefaultHowMany == 100000

\* ------------------------------------------------------------ Python values
None == [t |-> "None"]
PyInt(n) == [t |-> "int", v |-> n]
PyStr(s) == [t |-> "str", v |-> s]
PyList(s) == [t |-> "list", v |-> s]
PyDatetime(y, m, d, hh, mi, ss) ==
    [t |-> "datetime", y |-> y, m |-> m, d |-> d, hh |-> hh, mi |-> mi, ss |-> ss]
\* The continuation token the service returns with its k-th page.
Token(k) == [t |-> "token", k |-> k]

\* Python's ==  between a callback argument and the literal 0.
PyEqZero(x) == x.t = "int" /\ x.v = 0

\* --------------------------------------------------------------- str methods
\* sub in s
Contains(s, sub) ==
    \E i \in 0..(Len(s) - Len(sub)) : SubSeq(s, i + 1, i + Len(sub)) = sub

\* Position of the first sep in s at or after position i, 0 if none.
RECURSIVE FindChar(_, _, _)
FindChar(s, sep, i) ==
    IF i > Len(s) THEN 0
    ELSE IF s[i] = sep THEN i
    ELSE FindChar(s, sep, i + 1)

\* s.split(sep) for a one-character sep: never empty, "" gives [""].
RECURSIVE Split(_, _)
Split(s, sep) ==
    LET p == FindChar(s, sep, 1) IN
    IF p = 0 THEN <<s>>
    ELSE <<SubSeq(s, 1, p - 1)>> \o Split(SubSeq(s, p + 1, Len(s)), sep)

\* s.replace(old, ""): the non-overlapping occurrences of old, found left to
\* right in one pass, are removed.
RECURSIVE Remove(_, _)
Remove(s, old) ==
    IF Len(s) < Len(old) THEN s
    ELSE IF SubSeq(s, 1, Len(old)) = old
         THEN Remove(SubSeq(s, Len(old) + 1, Len(s)), old)
         ELSE <<s[1]>> \o Remove(SubSeq(s, 2, Len(s)), old)

\* ----------------------------------------------------------- decimal numbers
Digits == <<"0", "1", "2", "3", "4", "5", "6", "7", "8", "9">>
DigitValue(c) == CHOOSE n \in 0..9 : Digits[n + 1] = c
IsDigit(c) == \E n \in 0..9 : Digits[n + 1] = c

\* The decimal digits of n >= 0, without padding.
RECURSIVE Decimal(_)
Decimal(n) == IF n < 10 THEN <<Digits[n + 1]>> ELSE Decimal(n \div 10) \o <<Digits[(n % 10) + 1]>>

\* int() of a string of digits.
RECURSIVE ParseInt(_)
ParseInt(s) ==
    IF s = <<>> THEN 0 ELSE 10 * ParseInt(SubSeq(s, 1, Len(s) - 1)) + DigitValue(s[Len(s)])

\* a < b for two numbers given by their decimal digits, without leading zeros.
DecimalLess(a, b) ==
    \/ Len(a) < Len(b)
    \/ /\ Len(a) = Len(b)
       /\ \E i \in 1..Len(a) :
             /\ SubSeq(a, 1, i - 1) = SubSeq(b, 1, i - 1)
             /\ DigitValue(a[i]) < DigitValue(b[i])

\* seq[-1] and seq[-2]
Last(seq) == seq[Len(seq)]
SecondLast(seq) == seq[Len(seq) - 1]

\* seq[:n] for an integer n
Max(a, b) == IF a >= b THEN a ELSE b
SlicePrefix(seq, n) ==
    IF n >= 0 THEN SubSeq(seq, 1, IF n < Len(seq) THEN n ELSE Len(seq))
    ELSE SubSeq(seq, 1, Max(Len(seq) + n, 0))

\* how_many default of retrieve_appstore_reviews: sys.maxsize, 2^63 - 1 on a
\* 64-bit build, kept by its decimal digits.
SysMaxsize ==
    <<"9","2","2","3","3","7","2","0","3","6","8","5","4","7","7","5","8","0","7">>

\* seq[:n] for an n >= 0 given by its decimal digits.
SliceToDecimal(seq, n) ==
    IF DecimalLess(Decimal(Len(seq)), n) \/ Decimal(Len(seq)) = n THEN seq
    ELSE SubSeq(seq, 1, ParseInt(n))

\* ----------------------------------------------------------- URL extraction
\* The extraction as documented: only a leading "id" of the last segment is
\* stripped, the rest of the segment is kept.
StripIdPrefix(url) ==
    LET segs == Split(url, "/") IN
    IF Len(segs) < 2 THEN [ok |-> FALSE, error |-> "IndexError"]
    ELSE [ok |-> TRUE,
          app_id |-> IF Len(Last(segs)) >= 2 /\ SubSeq(Last(segs), 1, 2) = <<"i", "d">>
                     THEN SubSeq(Last(segs), 3, Len(Last(segs)))
                     ELSE Last(segs),
          app_name |-> SecondLast(segs)]

\* url.split("/")[-1].replace("id", ""), url.split("/")[-2]
get_app_id_name_from_appstore_url(url) ==
    LET segs == Split(url, "/") IN
    IF Len(segs) < 2 THEN [ok |-> FALSE, error |-> "IndexError"]
    ELSE [ok |-> TRUE,
          app_id |-> Remove(Last(segs), <<"i", "d">>),
          app_name |-> SecondLast(segs)]

\* url.split("/")[-1].split("?")[-1].split("&")[0].replace("id=", "")
get_app_id_from_playstore_url(url) ==
    Remove(Split(Last(Split(Last(Split(url, "/")), "?")), "&")[1], <<"i", "d", "=">>)

\* ------------------------------------------------------------------- URLs
APPSTORE_MARKER ==
    <<"a","p","p","s",".","a","p","p","l","e",".","c","o","m">>
PLAYSTORE_MARKER ==
    <<"p","l","a","y",".","g","o","o","g","l","e",".","c","o","m">>
InvalidUrlMessage == "Invalid url. Make sure to use a Playstore or Appstore url."

\* https://apps.apple.com/it/app/enel-x-way/id1377291789
UrlAppStore ==
    <<"h","t","t","p","s",":","/","/","a","p","p","s",".","a","p","p","l","e",".","c","o","m","/","i","t","/","a","p","p","/","e","n","e","l","-","x","-","w","a","y","/","i","d","1","3","7","7","2","9","1","7","8","9">>
\* https://play.google.com/store/apps/details?id=com.enel.mobile.recharge2&hl=it&gl=US
UrlPlayStore ==
    <<"h","t","t","p","s",":","/","/","p","l","a","y",".","g","o","o","g","l","e",".","c","o","m","/","s","t","o","r","e","/","a","p","p","s","/","d","e","t","a","i","l","s","?","i","d","=","c","o","m",".","e","n","e","l",".","m","o","b","i","l","e",".","r","e","c","h","a","r","g","e","2","&","h","l","=","i","t","&","g","l","=","U","S">>
\* https://play.google.com/x?u=apps.apple.com  (both markers)
UrlBoth ==
    <<"h","t","t","p","s",":","/","/","p","l","a","y",".","g","o","o","g","l","e",".","c","o","m","/","x","?","u","=","a","p","p","s",".","a","p","p","l","e",".","c","o","m">>
\* https://example.com/app/id1  (neither marker)
UrlNeither ==
    <<"h","t","t","p","s",":","/","/","e","x","a","m","p","l","e",".","c","o","m","/","a","p","p","/","i","d","1">>
\* apps.apple.com  (the marker alone, no "/")
UrlBareMarker ==
    <<"a","p","p","s",".","a","p","p","l","e",".","c","o","m">>

\* The values the State('input-url', 'value') argument takes: unset, empty, or a typed text.
UrlInputs ==
    {None, PyStr(<<>>), PyStr(UrlAppStore), PyStr(UrlPlayStore), PyStr(UrlBoth),
     PyStr(UrlNeither), PyStr(UrlBareMarker)}
\* The values the n_clicks and n_submit arguments take: unset or a count.
CounterInputs == {None, PyInt(0), PyInt(1)}

\* The classification with the Play Store marker tested first.
ClassifyPlayFirst(u) ==
    IF Contains(u, PLAYSTORE_MARKER) THEN "playstore"
    ELSE IF Contains(u, APPSTORE_MARKER) THEN "appstore"
    ELSE "invalid"

\* The if / elif / else of start_review_scraping on a str url, App Store first.
Classify(u) ==
    IF Contains(u, APPSTORE_MARKER) THEN "appstore"
    ELSE IF Contains(u, PLAYSTORE_MARKER) THEN "playstore"
    ELSE "invalid"

\* ------------------------------------------------------ the review services
\* Sizes of the pages the Play Store service may return (one above count too:
\* the service is not under the program's control).
PageSizes == {0, 1, 40, 150, 151}
\* Limits retrieve_playstore_reviews is called with directly.
DirectLimits == {-1, 0, 1, 2, 3, 150, 200, 1000}
\* Numbers of reviews the App Store bulk request may leave in app_store.reviews.
AppStoreCounts == {0, 1, 3}

\* The records of the idx-th page, of n entries.
PageRecords(idx, n) == [i \in 1..n |-> <<idx, i>>]
\* The page a request carrying token tok asks for.
RequestedIndex(tok) == IF tok = None THEN 1 ELSE tok.k + 1

VARIABLES
    \* start_review_scraping
    hpc,                \* "idle", "appstore_wait", "playstore_wait", "done"
    n_clicks, n_submits, url,
    branch,             \* "none", "noop", "appstore", "playstore", "invalid"
    error,              \* the exception the handler ended in, "" if none
    download,           \* the value returned for Output('download-data', 'data'), None if none
    ids,                \* the identifiers extracted from the url, None if none
    appstore_requests,  \* the App Store bulk requests issued, in order
    \* retrieve_playstore_reviews
    fpc,                \* "idle", "waiting", "returned", "raised"
    how_many, result, continuation_token,
    ret,                \* the list a retrieve function returned, None if none
    sent,               \* tokens of the page requests issued, in order
    received,           \* [page, token] of the responses received, in order
    failures,           \* number of requests a review service failed on
    \* the Play Store service
    served,             \* sizes of the pages served so far, by index
    \* the formatters
    dicts,              \* the review dicts of the batch, each a distinct object
    revs,               \* the batch: a list of references to those dicts (1..Len(dicts))
    tables, formatter,
    \* the App Store identifier extraction
    u_in, u_out

handlerVars == <<hpc, n_clicks, n_submits, url, branch, error, download, ids, appstore_requests>>
fetchVars == <<fpc, how_many, result, continuation_token, ret, sent, received, served>>
formatVars == <<dicts, revs, tables, formatter>>
urlVars == <<u_in, u_out>>
vars == <<handlerVars, fetchVars, failures, formatVars, urlVars>>

NoError == [type |-> "", msg |-> ""]
Raised(type, msg) == [type |-> type, msg |-> msg]

\* ------------------------------------------------ retrieve_playstore_reviews
\* The loop condition with the comparison off by one.
LoopConditionInclusive(res, h) == Len(res) <= h

\* while len(result) < how_many
LoopCondition(res, h) == Len(res) < h

\* The loop without its break on an empty page.
BreakOnEmptyNever(new_result) == FALSE

\* if not new_result: break
BreakOnEmpty(new_result) == new_result = <<>>

\* The token of the response dropped: the next request carries the old token.
ThreadTokenStale(returned, previous) == previous

\* new_result, continuation_token = reviews(..., continuation_token=continuation_token, ...):
\* the token of the next request is the one this response returned.
ThreadToken(returned, previous) == returned

\* The top of the loop with the returned list cut to the limit.
LoopTopTruncating(res, tok, h, sentSoFar) ==
    IF Len(res) < h
    THEN [fpc |-> "waiting", sent |-> Append(sentSoFar, tok), ret |-> None]
    ELSE [fpc |-> "returned", sent |-> sentSoFar, ret |-> PyList(SlicePrefix(res, h))]

\* The top of the loop with result res and token tok: either the next page
\* request is issued or the function returns res.
LoopTop(res, tok, h, sentSoFar) ==
    IF LoopCondition(res, h)
    THEN [fpc |-> "waiting", sent |-> Append(sentSoFar, tok), ret |-> None]
    ELSE [fpc |-> "returned", sent |-> sentSoFar, ret |-> PyList(res)]

\* The sizes the service may give the page of index idx: a page already served
\* is served again as it was, a new page is any size until the service is
\* exhausted, and empty from then on.
ServiceSizes(idx) ==
    IF idx <= Len(served) THEN {served[idx]}
    ELSE IF Len(served) < MaxPages THEN PageSizes
    ELSE {0}

\* dcc.send_data_frame(dataset.to_csv, filename=..., index=False) on the value a
\* formatter returned: only a pandas DataFrame has to_csv, the formatters
\* return the numpy array of np.concatenate.
SendDataFrame(datasetType, filename) ==
    IF datasetType = "DataFrame"
    THEN [error |-> NoError, download |-> [t |-> "file", filename |-> filename]]
    ELSE [error |-> Raised("AttributeError", "to_csv"), download |-> None]
FormatterReturnType == "ndarray"

\* The rest of start_review_scraping once the fetch function has returned:
\* format, then send.
HandlerAfterFetch(filename) ==
    LET out == SendDataFrame(FormatterReturnType, filename) IN
    /\ hpc' = "done"
    /\ error' = out.error
    /\ download' = out.download
    /\ UNCHANGED <<n_clicks, n_submits, url, branch, ids, appstore_requests>>

\* An exception of a review service leaves start_review_scraping uncaught.
HandlerAfterServiceError ==
    /\ hpc' = "done"
    /\ error' = Raised("ServiceError", "")
    /\ download' = None
    /\ UNCHANGED <<n_clicks, n_submits, url, branch, ids, appstore_requests>>

\* if n_clicks == 0 and n_submits == 0
IsNoSubmission(nc, ns) == PyEqZero(nc) /\ PyEqZero(ns)

\* ----------------------------------------------------------------- actions
\* retrieve_playstore_reviews(app_id, how_many=h) called on its own, up to its
\* first page request or its return.
CallRetrievePlaystore ==
    /\ hpc = "idle" /\ fpc = "idle"
    /\ \E h \in DirectLimits :
         LET top == LoopTop(<<>>, None, h, sent) IN
         /\ how_many' = h
         /\ result' = <<>>
         /\ continuation_token' = None
         /\ fpc' = top.fpc /\ sent' = top.sent /\ ret' = top.ret
    /\ UNCHANGED <<received, served>>
    /\ UNCHANGED <<handlerVars, failures, formatVars, urlVars>>

\* start_review_scraping(n_clicks, n_submits, url), up to its first request to a
\* review service or its end.
Trigger ==
    /\ hpc = "idle" /\ fpc = "idle"
    /\ \E nc \in CounterInputs, ns \in CounterInputs, u \in UrlInputs :
         /\ n_clicks' = nc /\ n_submits' = ns /\ url' = u
         /\ IF IsNoSubmission(nc, ns)
            THEN \* raise PreventUpdate: Dash leaves the output as it is
                 /\ branch' = "noop" /\ hpc' = "done" /\ error' = NoError
                 /\ UNCHANGED <<download, ids, appstore_requests, fetchVars>>
            ELSE IF u = None
            THEN \* "apps.apple.com" in None
                 /\ branch' = "none" /\ hpc' = "done"
                 /\ error' = Raised("TypeError", "")
                 /\ UNCHANGED <<download, ids, appstore_requests, fetchVars>>
            ELSE IF Classify(u.v) = "appstore"
            THEN LET e == get_app_id_name_from_appstore_url(u.v) IN
                 /\ branch' = "appstore"
                 /\ IF e.ok
                    THEN /\ ids' = e /\ hpc' = "appstore_wait" /\ error' = NoError
                         /\ appstore_requests' = Append(appstore_requests,
                                [country |-> <<"i", "t">>, app_name |-> e.app_name,
                                 app_id |-> e.app_id, how_many |-> SysMaxsize])
                    ELSE /\ ids' = None /\ hpc' = "done"
                         /\ error' = Raised(e.error, "")
                         /\ UNCHANGED appstore_requests
                 /\ UNCHANGED <<download, fetchVars>>
            ELSE IF Classify(u.v) = "playstore"
            THEN LET top == LoopTop(<<>>, None, DefaultHowMany, sent) IN
                 /\ branch' = "playstore"
                 /\ ids' = [ok |-> TRUE, app_id |-> get_app_id_from_playstore_url(u.v)]
                 /\ how_many' = DefaultHowMany
                 /\ result' = <<>>
                 /\ continuation_token' = None
                 /\ fpc' = top.fpc /\ sent' = top.sent /\ ret' = top.ret
                 /\ hpc' = "playstore_wait" /\ error' = NoError
                 /\ UNCHANGED <<download, appstore_requests, received, served>>
            ELSE /\ branch' = "invalid" /\ hpc' = "done"
                 /\ error' = Raised("ValueError", InvalidUrlMessage)
                 /\ UNCHANGED <<download, ids, appstore_requests, fetchVars>>
    /\ UNCHANGED <<failures, formatVars, urlVars>>

\* The Play Store service answers the pending request with a page and a token;
\* the loop body runs on to the next request or to the return, and a handler
\* waiting for the list runs on to its end.
ReceivePage ==
    /\ fpc = "waiting"
    /\ LET idx == RequestedIndex(Last(sent)) IN
       \E n \in ServiceSizes(idx) :
         LET new_result == PageRecords(idx, n)
             tok == ThreadToken(Token(idx), continuation_token)
             res == IF BreakOnEmpty(new_result) THEN result ELSE result \o new_result
             top == IF BreakOnEmpty(new_result)
                    THEN [fpc |-> "returned", sent |-> sent, ret |-> PyList(result)]
                    ELSE LoopTop(res, tok, how_many, sent)
         IN
         /\ served' = IF idx > Len(served) THEN Append(served, n) ELSE served
         /\ received' = Append(received, [page |-> new_result, token |-> Token(idx)])
         /\ continuation_token' = tok
         /\ result' = res
         /\ fpc' = top.fpc /\ sent' = top.sent /\ ret' = top.ret
         /\ IF hpc = "playstore_wait" /\ top.fpc = "returned"
            THEN HandlerAfterFetch(<<"playstore", ids.app_id>>)
            ELSE UNCHANGED handlerVars
    /\ UNCHANGED how_many
    /\ UNCHANGED <<failures, formatVars, urlVars>>

\* The failure caught inside the loop: the pages accumulated so far are returned.
ReceiveFailureSwallowed ==
    /\ fpc = "waiting"
    /\ fpc' = "returned"
    /\ ret' = PyList(result)
    /\ failures' = failures + 1
    /\ UNCHANGED <<how_many, result, continuation_token, sent, received, served>>
    /\ IF hpc = "playstore_wait"
       THEN HandlerAfterFetch(<<"playstore", ids.app_id>>)
       ELSE UNCHANGED handlerVars
    /\ UNCHANGED <<formatVars, urlVars>>

\* The Play Store service fails on the pending request: reviews() raises, and
\* nothing in retrieve_playstore_reviews or start_review_scraping catches it.
ReceiveFailure ==
    /\ fpc = "waiting"
    /\ fpc' = "raised"
    /\ ret' = None
    /\ failures' = failures + 1
    /\ UNCHANGED <<how_many, result, continuation_token, sent, received, served>>
    /\ IF hpc = "playstore_wait" THEN HandlerAfterServiceError ELSE UNCHANGED handlerVars
    /\ UNCHANGED <<formatVars, urlVars>>

\* The App Store service answers the bulk request: retrieve_appstore_reviews
\* returns app_store.reviews[:how_many], the handler formats and sends.
AppStoreRespond ==
    /\ hpc = "appstore_wait"
    /\ \E n \in AppStoreCounts :
         LET reviews == SliceToDecimal([i \in 1..n |-> <<0, i>>], Last(appstore_requests).how_many) IN
         /\ ret' = PyList(reviews)
         /\ HandlerAfterFetch(<<"appstore", ids.app_name>>)
    /\ UNCHANGED <<fpc, how_many, result, continuation_token, sent, received, served>>
    /\ UNCHANGED <<failures, formatVars, urlVars>>

\* The App Store service fails on the bulk request.
AppStoreFailure ==
    /\ hpc = "appstore_wait"
    /\ HandlerAfterServiceError
    /\ failures' = failures + 1
    /\ UNCHANGED <<fetchVars, formatVars, urlVars>>

Init ==
    /\ hpc = "idle" /\ n_clicks = None /\ n_submits = None /\ url = None
    /\ branch = "none" /\ error = NoError /\ download = None /\ ids = None
    /\ appstore_requests = <<>>
    /\ fpc = "idle" /\ how_many = 0 /\ result = <<>> /\ continuation_token = None
    /\ ret = None /\ sent = <<>> /\ received = <<>>
    /\ served = <<>> /\ failures = 0
    /\ dicts = <<>> /\ revs = <<>> /\ tables = <<>> /\ formatter = ""
    /\ u_in = <<>> /\ u_out = None

Next ==
    \/ CallRetrievePlaystore
    \/ Trigger
    \/ ReceivePage
    \/ ReceiveFailure
    \/ AppStoreRespond
    \/ AppStoreFailure

Spec == Init /\ [][Next]_vars

\* ------------------------------------------------------------ date and time
\* %d and %m: two digits, zero-padded.
Pad2(n) == IF n < 10 THEN <<"0">> \o Decimal(n) ELSE Decimal(n)

\* The format with day and month not padded.
strftimeUnpadded(dt) == Decimal(dt.d) \o <<"/">> \o Decimal(dt.m) \o <<"/">> \o Decimal(dt.y)

\* value.strftime("%d/%m/%Y"); %Y is the year in decimal (four digits from the
\* year 1000 on; the C library does not pad a smaller year).
strftime(dt) == Pad2(dt.d) \o <<"/">> \o Pad2(dt.m) \o <<"/">> \o Decimal(dt.y)

\* datetime.strptime(s, "%Y-%m-%dT%H:%M:%SZ") on the zero-padded, 20-character
\* form the App Store sends (2023-03-05T10:20:30Z).
strptime(s) ==
    PyDatetime(ParseInt(SubSeq(s, 1, 4)), ParseInt(SubSeq(s, 6, 7)), ParseInt(SubSeq(s, 9, 10)),
               ParseInt(SubSeq(s, 12, 13)), ParseInt(SubSeq(s, 15, 16)), ParseInt(SubSeq(s, 18, 19)))

\* --------------------------------------------------------------- formatters
\* rev[rev_key].replace("\n", "")
StripNewlines(s) == Remove(s, <<"\n">>)

\* The value appended to a column: a str loses its newlines, any other value
\* is kept as it is.
Clean(v) == IF v.t = "str" THEN PyStr(StripNewlines(v.v)) ELSE v

\* "" if value is None or isinstance(value, str) else value.strftime("%d/%m/%Y")
DateCell(v) == IF v = None \/ v.t = "str" THEN PyStr(<<>>) ELSE PyStr(strftime(v))

DateColumns == {"Datetime", "Reply Datetime"}

\* np.concatenate([np.array([list(dataset.keys())]), np.array(list(dataset.values())).T]):
\* the header row, then one row per review.  numpy gives an array of str and
\* int values a string dtype, so the ints become their decimal text; with any
\* other value (None) in it the array has dtype object and keeps the values.
NumpyTable(header, data) ==
    LET allText == \A r \in 1..Len(data) : \A c \in 1..Len(header) :
                       data[r][c].t \in {"str", "int"}
        conv(v) == IF allText /\ v.t = "int" THEN PyStr(Decimal(v.v)) ELSE v
    IN [t |-> "ndarray",
        rows |-> <<[c \in 1..Len(header) |-> PyStr(header[c])]>>
                 \o [r \in 1..Len(data) |-> [c \in 1..Len(header) |-> conv(data[r][c])]]]

\* _format_generic(revs, dataset_cols, revs_cols) on the list of dicts rs (it
\* only reads them); rev[rev_key] of a key the
\* review does not have raises KeyError.
_format_generic(rs, dataset_cols, revs_cols) ==
    LET missing == \E r \in 1..Len(rs) : \E c \in 1..Len(revs_cols) :
                       revs_cols[c] \notin DOMAIN rs[r]
        cell(r, c) == LET v == Clean(rs[r][revs_cols[c]]) IN
                      IF dataset_cols[c] \in DateColumns THEN DateCell(v) ELSE v
        data == [r \in 1..Len(rs) |-> [c \in 1..Len(dataset_cols) |-> cell(r, c)]]
    IN IF missing THEN [t |-> "KeyError"] ELSE NumpyTable(dataset_cols, data)

AppstoreRevsCols == <<"date", "userName", "review", "rating", "replyContent", "repliedAt">>
AppstoreDatasetCols == <<"Datetime", "Username", "Review", "Rating", "Reply", "Reply Datetime">>
PlaystoreRevsCols == <<"at", "userName", "content", "score", "replyContent", "repliedAt", "thumbsUpCount">>
PlaystoreDatasetCols == <<"Datetime", "Username", "Review", "Rating", "Reply", "Reply Datetime", "Thumbs Up">>

\* The concatenation with the review text first.
ConcatReviewTitle(title, review) == PyStr(review.v \o title.v)

\* rev["title"] + rev["review"]
ConcatTitleReview(title, review) == PyStr(title.v \o review.v)

\* The body of the preprocessing loop of formate_appstore_reviews on one review.
PrepareAppstore(rev) ==
    [k \in DOMAIN rev \cup {"replyContent", "repliedAt"} |->
        IF k = "review" THEN ConcatTitleReview(rev["title"], rev["review"])
        ELSE IF k = "replyContent"
             THEN IF "developerResponse" \in DOMAIN rev
                  THEN rev["developerResponse"].body ELSE PyStr(<<>>)
        ELSE IF k = "repliedAt"
             THEN IF "developerResponse" \in DOMAIN rev
                  THEN strptime(rev["developerResponse"].modified.v) ELSE PyStr(<<>>)
        ELSE rev[k]]

\* The list of dicts a list of references rs denotes among the dicts ds.
Deref(ds, rs) == [i \in 1..Len(rs) |-> ds[rs[i]]]

\* for rev in revs, from position i on: the body assigns into the dict the
\* position refers to, so a dict the list holds twice is prepared twice.
RECURSIVE PrepareLoop(_, _, _)
PrepareLoop(ds, rs, i) ==
    IF i > Len(rs) THEN ds
    ELSE PrepareLoop([ds EXCEPT ![rs[i]] = PrepareAppstore(ds[rs[i]])], rs, i + 1)

\* The dicts as formate_appstore_reviews leaves them.
PreparedAppstore(ds, rs) == PrepareLoop(ds, rs, 1)

formate_appstore_reviews(ds, rs) ==
    _format_generic(Deref(PreparedAppstore(ds, rs), rs), AppstoreDatasetCols, AppstoreRevsCols)

format_playstore_reviews(ds, rs) ==
    _format_generic(Deref(ds, rs), PlaystoreDatasetCols, PlaystoreRevsCols)

\* ------------------------------------------------------- raw review batches
IsoA == <<"2","0","2","3","-","0","3","-","0","5","T","1","0",":","2","0",":","3","0","Z">>
IsoB == <<"1","9","9","9","-","1","1","-","0","9","T","0","0",":","0","0",":","0","1","Z">>
DateA == PyDatetime(2023, 3, 5, 9, 30, 0)
DateB == PyDatetime(2019, 12, 31, 23, 59, 59)
PyBool(b) == [t |-> "bool", v |-> b]

\* The developer response to a review of the given date.
DeveloperResponse(dt) ==
    IF dt = DateA
    THEN [id |-> PyInt(7), body |-> PyStr(<<"o", "k", "\n">>), modified |-> PyStr(IsoA)]
    ELSE [id |-> PyInt(8), body |-> PyStr(<<"n", "o">>), modified |-> PyStr(IsoB)]

AppstoreBase ==
    {[date |-> dt, title |-> PyStr(ti), review |-> PyStr(re),
      rating |-> PyInt(IF dt = DateA THEN 5 ELSE 1), isEdited |-> PyBool(FALSE),
      userName |-> PyStr(<<"u", "\n", "1">>)] :
        dt \in {DateA, DateB},
        ti \in {<<>>, <<"G">>, <<"\n">>},
        re \in {<<" ", "a">>, <<"a", "\n", "b">>}}

\* App Store raw reviews: with and without the developerResponse key.
AppstorePool ==
    AppstoreBase \cup
    {[k \in DOMAIN b \cup {"developerResponse"} |->
         IF k = "developerResponse" THEN DeveloperResponse(b["date"]) ELSE b[k]] : b \in AppstoreBase}

\* Play Store raw reviews: at is a datetime, None or a str; the reply fields are
\* None or a text and a datetime.
PlaystorePool ==
    {[reviewId |-> PyStr(<<"r">>), userName |-> PyStr(<<"u">>), content |-> PyStr(co),
      score |-> PyInt(4), thumbsUpCount |-> PyInt(12), at |-> at,
      replyContent |-> rp[1], repliedAt |-> rp[2]] :
        co \in {<<"a">>, <<"a", "\n", "b">>},
        at \in {DateA, DateB, None, PyStr(<<"2", "0", "2", "3">>)},
        rp \in {<<None, None>>, <<PyStr(<<"t", "\n">>), DateB>>}}

RECURSIVE SeqsUpTo(_, _)
\* The sequences over S of length at most n.
SeqsUpTo(S, n) ==
    IF n = 0 THEN {<<>>}
    ELSE LET shorter == SeqsUpTo(S, n - 1) IN
         shorter \cup {Append(q, x) : q \in {q \in shorter : Len(q) = n - 1}, x \in S}

\* The lists of references of length at most MaxBatch, the dicts numbered in
\* the order of their first position in the list.
ReferenceLists ==
    {r \in SeqsUpTo(1..MaxBatch, MaxBatch) :
        \A i \in 1..Len(r) : \A k \in 1..(r[i] - 1) : \E j \in 1..(i - 1) : r[j] = k}

\* The batches of reviews of a pool: a list may hold one dict object at several
\* positions, and two distinct dicts may be equal.
Batches(Pool, platform) ==
    UNION {{[formatter |-> platform, dicts |-> d, revs |-> r] :
               d \in [1..Cardinality({r[i] : i \in 1..Len(r)}) -> Pool]} : r \in ReferenceLists}

\* ---------------------------------------------- the formatters, as a system
\* A formatter is called on the batch: the table it returns is recorded, and
\* formate_appstore_reviews leaves its assignments in the batch.
CallFormatAppstore ==
    /\ formatter = "appstore"
    /\ Len(tables) < MaxCalls
    /\ tables' = Append(tables, [by |-> "formate_appstore_reviews",
                                 table |-> formate_appstore_reviews(dicts, revs)])
    /\ dicts' = PreparedAppstore(dicts, revs)
    /\ UNCHANGED <<revs, formatter, handlerVars, fetchVars, failures, urlVars>>

CallFormatPlaystore ==
    /\ formatter = "playstore"
    /\ Len(tables) < MaxCalls
    /\ tables' = Append(tables, [by |-> "format_playstore_reviews",
                                 table |-> format_playstore_reviews(dicts, revs)])
    /\ UNCHANGED <<dicts, revs, formatter, handlerVars, fetchVars, failures, urlVars>>

\* _format_generic called on the batch with the column lists of its platform.
CallFormatGeneric ==
    /\ formatter \in {"appstore", "playstore"}
    /\ Len(tables) < MaxCalls
    /\ tables' = Append(tables, [by |-> "_format_generic",
                                 table |-> IF formatter = "appstore"
                                           THEN _format_generic(Deref(dicts, revs), AppstoreDatasetCols, AppstoreRevsCols)
                                           ELSE _format_generic(Deref(dicts, revs), PlaystoreDatasetCols, PlaystoreRevsCols)])
    /\ UNCHANGED <<dicts, revs, formatter, handlerVars, fetchVars, failures, urlVars>>

FormatInit ==
    /\ hpc = "idle" /\ n_clicks = None /\ n_submits = None /\ url = None
    /\ branch = "none" /\ error = NoError /\ download = None /\ ids = None
    /\ appstore_requests = <<>>
    /\ fpc = "idle" /\ how_many = 0 /\ result = <<>> /\ continuation_token = None
    /\ ret = None /\ sent = <<>> /\ received = <<>>
    /\ served = <<>> /\ failures = 0
    /\ u_in = <<>> /\ u_out = None
    /\ tables = <<>>
    /\ \E b \in Batches(AppstorePool, "appstore") \cup Batches(PlaystorePool, "playstore") :
          formatter = b.formatter /\ dicts = b.dicts /\ revs = b.revs

FormatNext ==
    \/ CallFormatAppstore
    \/ CallFormatPlaystore
    \/ CallFormatGeneric

FormatSpec == FormatInit /\ [][FormatNext]_vars

\* ------------------------------------- the identifier extraction, as a system
UrlAlphabet == {"i", "d", "/", "1"}
\* The urls handed to the extraction functions: every text over the alphabet
\* up to the length bound, and the sample urls.
ExtractionInputs ==
    SeqsUpTo(UrlAlphabet, MaxUrlLen) \cup {UrlAppStore, UrlPlayStore, UrlBoth, UrlNeither, UrlBareMarker}

ExtractAppstore ==
    /\ u_out = None
    /\ u_out' = [by |-> "get_app_id_name_from_appstore_url",
                 value |-> get_app_id_name_from_appstore_url(u_in)]
    /\ UNCHANGED <<u_in, handlerVars, fetchVars, failures, formatVars>>

ExtractPlaystore ==
    /\ u_out = None
    /\ u_out' = [by |-> "get_app_id_from_playstore_url",
                 value |-> [ok |-> TRUE, app_id |-> get_app_id_from_playstore_url(u_in)]]
    /\ UNCHANGED <<u_in, handlerVars, fetchVars, failures, formatVars>>

UrlInit ==
    /\ hpc = "idle" /\ n_clicks = None /\ n_submits = None /\ url = None
    /\ branch = "none" /\ error = NoError /\ download = None /\ ids = None
    /\ appstore_requests = <<>>
    /\ fpc = "idle" /\ how_many = 0 /\ result = <<>> /\ continuation_token = None
    /\ ret = None /\ sent = <<>> /\ received = <<>>
    /\ served = <<>> /\ failures = 0
    /\ dicts = <<>> /\ revs = <<>> /\ tables = <<>> /\ formatter = ""
    /\ u_in \in ExtractionInputs
    /\ u_out = None

UrlNext ==
    \/ ExtractAppstore
    \/ ExtractPlaystore

UrlSpec == UrlInit /\ [][UrlNext]_vars

\* Fairness: a pending request to a review service is answered, by a page or
\* by a failure (the calls are blocking and are taken to return).
FairSpec == Spec /\ WF_vars(ReceivePage \/ ReceiveFailure)

\* ================================================= properties of the fetch
RECURSIVE ConcatPages(_)
ConcatPages(rs) ==
    IF rs = <<>> THEN <<>> ELSE rs[1].page \o ConcatPages(Tail(rs))

RECURSIVE TotalSize(_, _)
\* Number of records in the first k responses.
TotalSize(rs, k) == IF k = 0 THEN 0 ELSE TotalSize(rs, k - 1) + Len(rs[k].page)

PageSizesReceived == [k \in 1..Len(received) |-> Len(received[k].page)]
FetchReturned == fpc = "returned"

\* C1: every page request is issued while the count accumulated from the
\* earlier responses is below the limit and the previous page was non-empty;
\* the function returns only once the count has reached the limit or an empty
\* page has arrived, and what it returns is the concatenation, in request
\* order, of the pages received.
C1_StopsAtLimitOrEmptyPage ==
    /\ \A k \in 1..Len(sent) :
          /\ TotalSize(received, k - 1) < how_many
          /\ k > 1 => received[k - 1].page # <<>>
    /\ FetchReturned =>
          /\ Len(sent) = Len(received)
          /\ \/ TotalSize(received, Len(received)) >= how_many
             \/ (received # <<>> /\ Last(received).page = <<>>)
          /\ ret = PyList(ConcatPages(received))

C1_Witness ==
    /\ FetchReturned
    /\ how_many = 1000
    /\ PageSizesReceived = <<150, 150, 40, 0>>
    /\ Len(sent) = 4
    /\ Len(ret.v) = 340

\* C2: when every page has at most 150 entries and the limit is at least 1,
\* the returned list holds every record received (it is not cut to the limit),
\* is shorter than limit + 150, and is above the limit only by records of the
\* last page fetched.
C2_OvershootBelowOnePage ==
    (/\ FetchReturned
     /\ how_many >= 1
     /\ \A k \in 1..Len(received) : Len(received[k].page) <= PageCount)
    => /\ Len(ret.v) = TotalSize(received, Len(received))
       /\ Len(ret.v) < how_many + PageCount
       /\ Len(ret.v) > how_many =>
             /\ received # <<>>
             /\ Len(ret.v) - Len(Last(received).page) < how_many

C2_Witness ==
    /\ FetchReturned
    /\ how_many = 200
    /\ PageSizesReceived = <<150, 150>>
    /\ Len(sent) = 2
    /\ Len(ret.v) = 300

\* C3: the first request carries no token, every later request carries the
\* token returned by the response just before it, and a request is issued only
\* when every earlier request has been answered.
C3_TokensThreadedInOrder ==
    /\ Len(received) <= Len(sent)
    /\ Len(sent) <= Len(received) + 1
    /\ \A k \in 1..Len(sent) :
          sent[k] = IF k = 1 THEN None ELSE received[k - 1].token

C3_Witness ==
    /\ Len(sent) = 4
    /\ sent[4] = Token(3)
    /\ fpc = "waiting"

\* C10: the fetch issues no request when the limit is not positive and at most
\* limit requests otherwise, and a fetch whose requests are all answered ends.
C10_RequestsBoundedByLimit ==
    /\ [](how_many <= 0 => sent = <<>>)
    /\ [](how_many >= 1 => Len(sent) <= how_many)
    /\ [](fpc = "waiting" => <>(fpc \in {"returned", "raised"}))

C10_Witness ==
    /\ FetchReturned
    /\ how_many = 3
    /\ Len(sent) = 3
    /\ PageSizesReceived = <<1, 1, 1>>

\* =============================================== properties of the handler
\* A counter that records at least one click or submit.
IsPositiveCount(x) == x.t = "int" /\ x.v >= 1
RealSubmission == IsPositiveCount(n_clicks) \/ IsPositiveCount(n_submits)
\* Both counters are zero or unset.
NoSubmission ==
    /\ n_clicks = None \/ n_clicks = PyInt(0)
    /\ n_submits = None \/ n_submits = PyInt(0)
NoServiceCalled == sent = <<>> /\ appstore_requests = <<>>

\* C4: on a real submission of a text url the branch run is the App Store one
\* when the url contains the App Store marker, the Play Store one when it
\* contains the Play Store marker only, and otherwise the handler ends in the
\* "Invalid url" error with no service called and no file; a branch never
\* calls the other platform's service.
C4_BranchChosenByUrl ==
    (hpc # "idle" /\ RealSubmission /\ url.t = "str") =>
       /\ Contains(url.v, APPSTORE_MARKER) =>
             /\ branch = "appstore"
             /\ sent = <<>>
             /\ get_app_id_name_from_appstore_url(url.v).ok => Len(appstore_requests) = 1
       /\ (Contains(url.v, PLAYSTORE_MARKER) /\ ~Contains(url.v, APPSTORE_MARKER)) =>
             /\ branch = "playstore"
             /\ appstore_requests = <<>>
             /\ Len(sent) >= 1
       /\ (~Contains(url.v, PLAYSTORE_MARKER) /\ ~Contains(url.v, APPSTORE_MARKER)) =>
             /\ branch = "invalid"
             /\ hpc = "done"
             /\ error = Raised("ValueError", InvalidUrlMessage)
             /\ NoServiceCalled
             /\ download = None

C4_Witness ==
    /\ RealSubmission
    /\ url = PyStr(UrlNeither)
    /\ hpc = "done"
    /\ error.msg = InvalidUrlMessage

\* C5: a trigger with both counters zero or unset is a no-op: no service is
\* called, no download is produced and the handler ends in no error.
C5_NoSubmissionIsNoOp ==
    (hpc # "idle" /\ NoSubmission) =>
       /\ branch = "noop"
       /\ hpc = "done"
       /\ error = NoError
       /\ NoServiceCalled
       /\ download = None

\* C6: once a review service has failed on a request, that request is the last
\* one issued, the fetch has ended without returning a list, and a handler
\* that was waiting has ended in the service's failure with no file.
C6_ServiceFailurePropagates ==
    failures > 0 =>
       /\ failures = 1
       /\ ret = None
       /\ fpc \in {"idle", "raised"}
       /\ fpc = "raised" => Len(sent) = Len(received) + 1
       /\ hpc # "idle" =>
             /\ hpc = "done"
             /\ error.type = "ServiceError"
             /\ download = None
             /\ Len(appstore_requests) + Len(sent) = Len(received) + 1

C6_Witness ==
    /\ failures = 1
    /\ fpc = "raised"
    /\ Len(received) = 2
    /\ result # <<>>
    /\ hpc = "done"
    /\ branch = "playstore"

\* ========================================== properties of the formatters
\* Row r of a table (the header is row 1) and the review it was made from.
DataRows(tb) == 2..Len(tb.rows)
ReviewColumn == 3

RECURSIVE Repeated(_, _)
\* The text s, k times.
Repeated(s, k) == IF k = 0 THEN <<>> ELSE s \o Repeated(s, k - 1)
\* Number of positions of the batch that hold the dict d.
Positions(d) == Cardinality({j \in 1..Len(revs) : revs[j] = d})

\* C7 as stated: two calls in succession of one formatter on the batch return
\* equal tables.
C7_SameTableTwice ==
    \A i \in 1..(Len(tables) - 1) :
        tables[i].by = tables[i + 1].by => tables[i].table = tables[i + 1].table

\* C7, amended: two calls in succession of _format_generic or of
\* format_playstore_reviews return equal tables; of two calls in succession of
\* formate_appstore_reviews the second returns the first one's table with, in
\* every row, the title without its newlines put in front of the Review cell
\* once more for each position of the batch that holds the row's dict (once
\* when the dicts of the batch are distinct objects), every other cell being
\* equal.
C7_SameTableTwiceButAppstoreTitle ==
    \A i \in 1..(Len(tables) - 1) :
        LET a == tables[i].table
            b == tables[i + 1].table
        IN tables[i].by = tables[i + 1].by =>
           IF tables[i].by = "formate_appstore_reviews"
           THEN /\ b.t = "ndarray" /\ a.t = "ndarray"
                /\ Len(b.rows) = Len(a.rows)
                /\ b.rows[1] = a.rows[1]
                /\ \A r \in DataRows(b) :
                      \A c \in 1..Len(b.rows[r]) :
                          b.rows[r][c] =
                             IF c = ReviewColumn
                             THEN PyStr(Repeated(StripNewlines(dicts[revs[r - 1]]["title"].v),
                                                 Positions(revs[r - 1]))
                                        \o a.rows[r][c].v)
                             ELSE a.rows[r][c]
           ELSE a = b

\* The batch has a review with a visible title and formate_appstore_reviews has
\* run twice in succession, giving two different tables; the batch also went
\* twice through _format_generic afterwards.
C7_Witness ==
    /\ Len(tables) = 3
    /\ tables[1].by = "formate_appstore_reviews"
    /\ tables[2].by = "formate_appstore_reviews"
    /\ tables[3].by = "_format_generic"
    /\ tables[1].table # tables[2].table
    /\ tables[2].table = tables[3].table
    /\ revs = <<1, 2>>

IsDDMMYYYY(s) ==
    /\ Len(s) = 10
    /\ s[3] = "/" /\ s[6] = "/"
    /\ \A i \in {1, 2, 4, 5, 7, 8, 9, 10} : IsDigit(s[i])

\* The cell made from a source value that is None, a str or a datetime.
IsDateCellOf(cell, src) ==
    /\ cell.t = "str"
    /\ cell.v = <<>> \/ IsDDMMYYYY(cell.v)
    /\ (src = None \/ src.t = "str") => cell.v = <<>>
    /\ src.t = "datetime" =>
          /\ IsDDMMYYYY(cell.v)
          /\ ParseInt(SubSeq(cell.v, 1, 2)) = src.d
          /\ ParseInt(SubSeq(cell.v, 4, 5)) = src.m
          /\ ParseInt(SubSeq(cell.v, 7, 10)) = src.y

\* The date carried by the first ten characters of an ISO text.
IsoDate(s) ==
    [t |-> "datetime", y |-> ParseInt(SubSeq(s, 1, 4)), m |-> ParseInt(SubSeq(s, 6, 7)),
     d |-> ParseInt(SubSeq(s, 9, 10))]

\* C8: in a table of formate_appstore_reviews or format_playstore_reviews the
\* Datetime and Reply Datetime cells of every review row are "" when the source
\* value is None or a str (an App Store review without developer response
\* included) and otherwise the source date as DD/MM/YYYY.
C8_DateCellsEmptyOrDDMMYYYY ==
    \A i \in 1..Len(tables) :
        LET tb == tables[i].table IN
        /\ tables[i].by = "formate_appstore_reviews" =>
              \A r \in DataRows(tb) :
                  /\ IsDateCellOf(tb.rows[r][1], dicts[revs[r - 1]]["date"])
                  /\ IsDateCellOf(tb.rows[r][6],
                                  IF "developerResponse" \in DOMAIN dicts[revs[r - 1]]
                                  THEN IsoDate(dicts[revs[r - 1]]["developerResponse"].modified.v)
                                  ELSE None)
        /\ tables[i].by = "format_playstore_reviews" =>
              \A r \in DataRows(tb) :
                  /\ IsDateCellOf(tb.rows[r][1], dicts[revs[r - 1]]["at"])
                  /\ IsDateCellOf(tb.rows[r][6], dicts[revs[r - 1]]["repliedAt"])

\* An App Store table with a dated review that has no developer response and
\* one that has a response.
C8_Witness ==
    /\ Len(tables) >= 1
    /\ tables[1].by = "formate_appstore_reviews"
    /\ revs = <<1, 2>>
    /\ "developerResponse" \notin DOMAIN dicts[1]
    /\ "developerResponse" \in DOMAIN dicts[2]
    /\ tables[1].table.rows[2][1].v = <<"0", "5", "/", "0", "3", "/", "2", "0", "2", "3">>
    /\ tables[1].table.rows[2][6].v = <<>>
    /\ tables[1].table.rows[3][6].v # <<>>

\* ============================ properties of the identifier extraction
\* C9: for every url (a text with at least one "/") the App Store extraction
\* returns the last segment without a leading "id", the rest of it unchanged,
\* and the second-to-last segment.
C9_StripsLeadingIdOnly ==
    (/\ u_out # None
     /\ u_out.by = "get_app_id_name_from_appstore_url"
     /\ Len(Split(u_in, "/")) >= 2)
    => /\ u_out.value.ok
       /\ u_out.value = StripIdPrefix(u_in)

====
